---- MODULE Spec2Model ----
(***************************************************************************)
(* Model of ace (actinia command execution), src/ace.py:                   *)
(*   - split_grass_command: the quoting-aware tokenizer                    *)
(*   - create_actinia_process: compiling one command with the local tool   *)
(*   - send_poll_commands: chain building, submission, polling, reporting  *)
(* Strings of a command line are sequences of one-character strings.       *)
(***************************************************************************)
EXTENDS Integers, Sequences, FiniteSets, TLC

(***************************************************************************)
(* Bounds                                                                  *)
(***************************************************************************)
MaxLen == 5
MaxCmds == 2
MaxGets == 3
MaxArgs == 3

(***************************************************************************)
(* Characters                                                              *)
(***************************************************************************)
DQ == "\""
SQ == "'"
SP == " "
EQ == "="
Chars == {"a", SP, EQ, DQ, SQ}
Quotes == {DQ, SQ}

RECURSIVE Lines(_)
Lines(n) ==
    IF n = 0 THEN {<<>>}
    ELSE LET shorter == Lines(n - 1)
         IN  shorter \cup {Append(s, c) : s \in {t \in shorter : Len(t) = n - 1}, c \in Chars}

SetMin(S) == CHOOSE x \in S : \A y \in S : x <= y
SetMax(S) == CHOOSE x \in S : \A y \in S : x >= y

(***************************************************************************)
(* split_grass_command                                                     *)
(***************************************************************************)
\* number of quote characters (of either kind) in s[i..Len(s)]
QuotesFrom(s, i) == Cardinality({j \in i..Len(s) : s[j] \in Quotes})

\* the lookahead (?=(?:[^"']*["'][^"']*["'])*[^"']*$): the rest of the string
\* holds an even number of quote characters
EvenQuotesAhead(s, i) == QuotesFrom(s, i + 1) % 2 = 0

SPACE_MATCHER(s) == {i \in 1..Len(s) : s[i] = SP /\ EvenQuotesAhead(s, i)}

EQUALS_MATCHER(s) == {i \in 1..Len(s) : s[i] = EQ /\ EvenQuotesAhead(s, i)}

\* re.split for a one-character pattern matching at the positions P: the
\* pieces between consecutive matches, empty pieces included
re_split(s, P) ==
    LET n == Cardinality(P)
        nth(k) == CHOOSE p \in P : Cardinality({q \in P : q < p}) = k - 1
        lo(k) == IF k = 1 THEN 1 ELSE nth(k - 1) + 1
        hi(k) == IF k = n + 1 THEN Len(s) ELSE nth(k) - 1
    IN  [k \in 1..(n + 1) |-> SubSeq(s, lo(k), hi(k))]

\* str.strip(c): every leading and every trailing c is removed
strip(s, c) ==
    LET keep == {i \in 1..Len(s) : s[i] # c}
    IN  IF keep = {} THEN <<>> ELSE SubSeq(s, SetMin(keep), SetMax(keep))

HasChar(s, C) == \E i \in 1..Len(s) : s[i] \in C

\* the test that selects the tokens to rewrite
NeedsNorm_eqonly(token) == HasChar(token, {EQ})

NeedsNorm(token) == HasChar(token, {EQ}) /\ HasChar(token, Quotes)

\* the body of the for loop for one token: the exception it raises, if any,
\* and the token it leaves in tokens[i]
NormToken(token) ==
    IF NeedsNorm(token)
    THEN LET parts == re_split(token, EQUALS_MATCHER(token))
         IN  IF Len(parts) # 2
             THEN [raised |-> "ValueError", token |-> token]
             ELSE LET par == parts[1]
                      val == parts[2]
                  IN  IF Len(val) = 0
                      THEN [raised |-> "IndexError", token |-> token]
                      ELSE IF val[1] = val[Len(val)]
                           THEN [raised |-> "none",
                                 token |-> par \o <<EQ>> \o strip(strip(val, DQ), SQ)]
                           ELSE [raised |-> "none", token |-> token]
    ELSE [raised |-> "none", token |-> token]

\* the result of split_grass_command: the first exception of the loop, or the
\* rewritten tokens
split_grass_command(grass_command) ==
    LET tokens == re_split(grass_command, SPACE_MATCHER(grass_command))
        norm == [i \in 1..Len(tokens) |-> NormToken(tokens[i])]
        bad == {i \in 1..Len(tokens) : norm[i].raised # "none"}
    IN  IF bad # {}
        THEN [raised |-> norm[SetMin(bad)].raised, tokens |-> <<>>]
        ELSE [raised |-> "none", tokens |-> [i \in 1..Len(tokens) |-> norm[i].token]]

\* " ".join(tokens)
RECURSIVE JoinSpaces(_)
JoinSpaces(tokens) ==
    IF Len(tokens) = 0 THEN <<>>
    ELSE IF Len(tokens) = 1 THEN tokens[1]
    ELSE tokens[1] \o <<SP>> \o JoinSpaces(Tail(tokens))

(***************************************************************************)
(* Module-level defaults                                                   *)
(***************************************************************************)
ACTINIA_USER == "demouser"
ACTINIA_URL == "https://actinia.mundialis.de"
ACTINIA_VERSION == "v3"
LOCATION == "nc_spm_08"

(***************************************************************************)
(* JSON texts and the objects they parse to.  An object lists the keys it  *)
(* holds in has; the value of a key it does not hold is never read.        *)
(***************************************************************************)
NoUrls == [has |-> {}, status |-> <<>>]
StatusUrls == [has |-> {"status"}, status |-> <<"resource_status_url">>]

EmptyObj ==
    [has |-> {}, status |-> "", message |-> "", process_log |-> <<>>, urls |-> NoUrls]

Obj(has, status, message, process_log, urls) ==
    [has |-> has, status |-> status, message |-> message,
     process_log |-> process_log, urls |-> urls]

Garbage == [wf |-> FALSE, obj |-> EmptyObj]
JsonText(obj) == [wf |-> TRUE, obj |-> obj]

\* simplejson.loads: a parse error for a malformed text, else the object
loads(text) ==
    IF text.wf THEN [raised |-> "none", data |-> text.obj]
    ELSE [raised |-> "JSONDecodeError", data |-> EmptyObj]

Response(code, text) == [status_code |-> code, text |-> text]
NoResponse == Response(0, Garbage)

\* bodies the service may answer the POST with
PostTexts ==
    { Garbage,
      JsonText(Obj({"message"}, "", "bad request", <<>>, NoUrls)),
      JsonText(EmptyObj),
      JsonText(Obj({"status", "message", "urls"}, "accepted", "Resource accepted",
                   <<>>, StatusUrls)),
      JsonText(Obj({"message", "urls"}, "", "Resource accepted", <<>>, StatusUrls)),
      JsonText(Obj({"status", "message"}, "accepted", "Resource accepted", <<>>, NoUrls)),
      JsonText(Obj({"status", "message", "urls"}, "accepted", "Resource accepted",
                   <<>>, NoUrls)) }

PostCodes == {200, 201, 202, 400}
PostResponses == {Response(c, t) : c \in PostCodes, t \in PostTexts}

StepLog(stdout, stderr) == [stdout |-> stdout, stderr |-> stderr]

LogChoices ==
    { <<>>,
      <<StepLog("out1", <<"">>)>>,
      <<StepLog("", <<"err1">>)>>,
      <<StepLog("out1", <<>>)>>,
      <<StepLog("out1", <<"err1", "">>), StepLog("out2", <<"">>)>> }

TerminalStatuses == {"finished", "error", "terminated"}
RunningStatuses == {"accepted", "running"}

\* bodies the service may answer a GET of the status URL with
PollTexts ==
    { Garbage,
      JsonText(Obj({"message"}, "", "msg", <<>>, NoUrls)) }
    \cup { JsonText(Obj({"status"}, s, "", <<>>, NoUrls)) : s \in {"running", "finished"} }
    \cup { JsonText(Obj({"status", "message"}, s, "msg", <<>>, NoUrls)) :
             s \in RunningStatuses \cup TerminalStatuses }
    \cup { JsonText(Obj({"status", "message", "urls"}, s, "msg", <<>>, StatusUrls)) :
             s \in TerminalStatuses }
    \cup { JsonText(Obj({"status", "message", "process_log"}, s, "msg", l, NoUrls)) :
             s \in TerminalStatuses, l \in LogChoices }
    \cup { JsonText(Obj({"status", "message", "process_log", "urls"}, s, "msg", l,
                        StatusUrls)) : s \in TerminalStatuses, l \in LogChoices }

PollCodes == {200, 404}
PollResponses == {Response(c, t) : c \in PollCodes, t \in PollTexts}

(***************************************************************************)
(* Commands and the local tool                                             *)
(***************************************************************************)
CommandChoices ==
    { <<>>, <<"g.region">>, <<"r.info", "--json">>, <<"r.info", "--help">> }

RECURSIVE CommandLists(_)
CommandLists(n) ==
    IF n = 0 THEN {<<>>}
    ELSE LET shorter == CommandLists(n - 1)
         IN  shorter \cup {Append(cs, c) : cs \in {t \in shorter : Len(t) = n - 1},
                                            c \in CommandChoices}

\* what one run of the tool can produce: its exit code and what its standard
\* output parses to ("garbage": not JSON, "empty": the empty object,
\* "process": the description of the module it was called for)
ToolOutcomes ==
    { [returncode |-> 1, stdout |-> "garbage"],
      [returncode |-> 1, stdout |-> "process"],
      [returncode |-> 0, stdout |-> "garbage"],
      [returncode |-> 0, stdout |-> "empty"],
      [returncode |-> 0, stdout |-> "process"] }

NoneProc == [has |-> {}, id |-> "None", module |-> "None"]
EmptyProc == [has |-> {}, id |-> "", module |-> ""]
ProcOf(args) == [has |-> {"id", "module"}, id |-> args[1], module |-> args[1]]

\* truth value of a compile result in "if p_chain:"
Truthy(p) == p.has # {}

InSeq(x, s) == \E k \in 1..Len(s) : s[k] = x

(***************************************************************************)
(* State                                                                   *)
(***************************************************************************)
VARIABLES
    pc,            \* position in send_poll_commands
    commands,      \* argument: the token lists, as create_actinia_process leaves them
    mapset,        \* argument: "" when no persistent mapset is given
    DRY_RUN,       \* global set by main from flag d
    i,             \* index of the next command of the compile loop
    PCHAIN,        \* the global process chain
    returned,      \* what create_actinia_process returned, call by call
    tool_calls,    \* runs of the local tool: argument list and what the run produced
    requests,      \* HTTP requests issued, in order
    req,           \* response to the POST
    poll_url,      \* status URL taken from the acceptance payload
    r,             \* response to the latest GET
    polled,        \* responses the service gave to the GETs, in order
    data,          \* latest parsed body
    final_status,  \* status of the latest parsed snapshot
    stdout,        \* what has been printed
    fatal_msg,     \* text handed to grass.fatal
    raised,        \* exception that left send_poll_commands, "none" if none
    grass_command, \* argument of split_grass_command
    tokens,        \* its result
    retokens,      \* result of tokenizing the re-joined tokens
    tpc,           \* position of the tokenizer run
    flags,         \* main: the flags of the invocation
    options,       \* main: the options of the invocation
    performed,     \* main: the actions it has called, in order
    mpc            \* position of the run of main

chain_vars == <<pc, commands, mapset, DRY_RUN, i, PCHAIN, returned, tool_calls,
                requests, req, poll_url, r, polled, data, final_status, stdout,
                fatal_msg, raised>>
tok_vars == <<grass_command, tokens, retokens, tpc>>
main_vars == <<flags, options, performed, mpc>>
vars == <<chain_vars, tok_vars, main_vars>>

NoTokens == [raised |-> "none", tokens |-> <<>>]

ChainIdle(p, cs, m, d) ==
    /\ pc = p
    /\ commands = cs
    /\ mapset = m
    /\ DRY_RUN = d
    /\ i = 1
    /\ PCHAIN = [version |-> "1", list |-> <<>>]
    /\ returned = <<>>
    /\ tool_calls = <<>>
    /\ requests = <<>>
    /\ req = NoResponse
    /\ poll_url = <<>>
    /\ r = NoResponse
    /\ polled = <<>>
    /\ data = EmptyObj
    /\ final_status = ""
    /\ stdout = <<>>
    /\ fatal_msg = <<>>
    /\ raised = "none"

TokIdle(p, line) ==
    /\ tpc = p
    /\ grass_command = line
    /\ tokens = NoTokens
    /\ retokens = NoTokens

FlagNames == {"a", "d", "l", "m", "r", "v", "s"}
OptionNames ==
    {"grass_command", "script", "list_jobs", "info_job", "location", "mapset",
     "create_mapset", "delete_mapset", "create_location", "delete_location",
     "render_raster", "render_vector", "render_strds", "kill_job"}

\* the flags and options of an invocation in which those of given are set:
\* a flag is a boolean, an option a string that is "" when not given;
\* grass_command is held as its pieces between dots and create_location as
\* its words
Flags(given) == [f \in FlagNames |-> f \in given]
Options(given, gc, cl) ==
    [o \in OptionNames |->
        IF o = "grass_command" THEN (IF o \in given THEN gc ELSE <<"">>)
        ELSE IF o = "create_location" THEN (IF o \in given THEN cl ELSE <<>>)
        ELSE IF o \in given THEN "x" ELSE ""]

GrassCommandChoices == {<<"r", "info">>, <<"r3", "info">>, <<"ls">>}
CreateLocationChoices == {<<"loc">>, <<"loc", "4326">>}

RECURSIVE GivenSets(_)
GivenSets(n) ==
    IF n = 0 THEN {{}}
    ELSE LET smaller == GivenSets(n - 1)
         IN  smaller \cup {S \cup {x} : S \in smaller, x \in FlagNames \cup OptionNames}

MainIdle(p, given, gc, cl) ==
    /\ mpc = p
    /\ flags = Flags(given)
    /\ options = Options(given, gc, cl)
    /\ performed = <<>>

MapsetChoices == {"", "user1"}

\* a call of send_poll_commands on a fresh chain
Init ==
    /\ \E cs \in CommandLists(MaxCmds), m \in MapsetChoices, d \in BOOLEAN :
           ChainIdle("compile", cs, m, d)
    /\ TokIdle("idle", <<>>)
    /\ MainIdle("idle", {}, <<"">>, <<>>)

\* a call of send_poll_commands with at most one command
InitLive ==
    /\ \E cs \in CommandLists(1), m \in MapsetChoices, d \in BOOLEAN :
           ChainIdle("compile", cs, m, d)
    /\ TokIdle("idle", <<>>)
    /\ MainIdle("idle", {}, <<"">>, <<>>)

\* a call of split_grass_command
InitTok ==
    /\ ChainIdle("idle", <<>>, "", FALSE)
    /\ \E line \in Lines(MaxLen) : TokIdle("start", line)
    /\ MainIdle("idle", {}, <<"">>, <<>>)

\* an invocation of main
InitMain ==
    /\ ChainIdle("idle", <<>>, "", FALSE)
    /\ TokIdle("idle", <<>>)
    /\ \E given \in GivenSets(MaxArgs), gc \in GrassCommandChoices,
          cl \in CreateLocationChoices : MainIdle("start", given, gc, cl)

(***************************************************************************)
(* create_actinia_process                                                  *)
(***************************************************************************)
\* the test "proc.returncode != 0"
ToolFailed_never(outcome) == FALSE

ToolFailed(outcome) == outcome.returncode # 0

\* the test '"--json" not in command'
NeedsJsonFlag_always(command) == TRUE

NeedsJsonFlag(command) == ~InSeq("--json", command)

\* the test "'--help' in command"
HasHelp_never(command) == FALSE

HasHelp(command) == InSeq("--help", command)

ToolCall(args, outcome) == [args |-> args, outcome |-> outcome]

\* the call for one command when the tool, if started, behaves as outcome:
\* the exception raised or the value returned, the command list as the call
\* leaves it, and the argument lists the tool was started with
create_actinia_process(command, outcome) ==
    IF Len(command) = 0
    THEN [raised |-> "none", result |-> NoneProc, command |-> command, calls |-> <<>>]
    ELSE IF HasHelp(command)
    THEN [raised |-> "Exception", result |-> NoneProc, command |-> command,
          calls |-> <<>>]
    ELSE LET args == IF NeedsJsonFlag(command) THEN Append(command, "--json")
                     ELSE command
         IN  IF ToolFailed(outcome)
             THEN [raised |-> "Exception", result |-> NoneProc, command |-> args,
                   calls |-> <<ToolCall(args, outcome)>>]
             ELSE IF outcome.stdout = "garbage"
             THEN [raised |-> "JSONDecodeError", result |-> NoneProc, command |-> args,
                   calls |-> <<ToolCall(args, outcome)>>]
             ELSE [raised |-> "none",
                   result |-> IF outcome.stdout = "empty" THEN EmptyProc ELSE ProcOf(args),
                   command |-> args, calls |-> <<ToolCall(args, outcome)>>]

\* PCHAIN["list"].append(p_chain) under "if p_chain:"
AppendChain_always(chain, p_chain) == [chain EXCEPT !.list = Append(@, p_chain)]

AppendChain(chain, p_chain) ==
    IF Truthy(p_chain) THEN [chain EXCEPT !.list = Append(@, p_chain)] ELSE chain

(***************************************************************************)
(* send_poll_commands                                                      *)
(***************************************************************************)
\* "for command in commands": the command the loop takes after command i
NextCommand_skip(k) == k + 2

NextCommand(k) == k + 1

\* one iteration of the loop over commands
Compile ==
    /\ pc = "compile"
    /\ i <= Len(commands)
    /\ \E outcome \in ToolOutcomes :
         LET c == create_actinia_process(commands[i], outcome)
         IN  /\ commands' = [commands EXCEPT ![i] = c.command]
             /\ tool_calls' = tool_calls \o c.calls
             /\ IF c.raised # "none"
                THEN /\ raised' = c.raised
                     /\ pc' = "raised"
                     /\ UNCHANGED <<i, PCHAIN, returned>>
                ELSE /\ returned' = Append(returned, c.result)
                     /\ PCHAIN' = AppendChain(PCHAIN, c.result)
                     /\ i' = NextCommand(i)
                     /\ UNCHANGED <<pc, raised>>
    /\ UNCHANGED <<mapset, DRY_RUN, requests, req, poll_url, r, polled, data,
                   final_status, stdout, fatal_msg>>
    /\ UNCHANGED <<tok_vars, main_vars>>

\* the test "DRY_RUN is True"
IsDryRun_ignored(flag) == FALSE

IsDryRun(flag) == flag = TRUE

\* the loop is over and DRY_RUN is set: print the chain and return
DryRun ==
    /\ pc = "compile"
    /\ i > Len(commands)
    /\ IsDryRun(DRY_RUN)
    /\ stdout' = Append(stdout, <<"json", PCHAIN>>)
    /\ pc' = "returned"
    /\ UNCHANGED <<commands, mapset, DRY_RUN, i, PCHAIN, returned, tool_calls, requests,
                   req, poll_url, r, polled, data, final_status, fatal_msg, raised>>
    /\ UNCHANGED <<tok_vars, main_vars>>

SubmitUrl_export(m) ==
    <<ACTINIA_URL, "api", ACTINIA_VERSION, "locations", LOCATION,
      "processing_async_export">>

\* the URL the chain is posted to
SubmitUrl(m) ==
    IF m # ""
    THEN <<ACTINIA_URL, "api", ACTINIA_VERSION, "locations", LOCATION, "mapsets", m,
           "processing_async">>
    ELSE <<ACTINIA_URL, "api", ACTINIA_VERSION, "locations", LOCATION,
           "processing_async_export">>

Request(method, url, body) == [method |-> method, url |-> url, body |-> body]

\* msg of the fatal text for a response whose status code is not 200 or 201
ErrorMsg(resp) ==
    LET parsed == loads(resp.text)
    IN  IF parsed.raised # "none" THEN <<<<"text", resp.text>>>>
        ELSE IF "message" \in parsed.data.has
             THEN <<<<"str", ": ">>, <<"str", parsed.data.message>>>>
             ELSE <<>>

\* the status codes that are not a submission error
IsSuccessCode_2xx(code) == code \in 200..299

IsSuccessCode(code) == code \in {200, 201}

\* the text given to grass.fatal when the acceptance body does not parse
ParseErrorText_prefix(resp) == <<<<"str", "ERROR posting to url">>>>

ParseErrorText(resp) == <<<<"text", resp.text>>>>

\* what happens from the response to the POST up to the polling loop
Accept(url, resp) ==
    LET parsed == loads(resp.text)
        d == parsed.data
        none == [to |-> "raised", raised |-> "none", fatal |-> <<>>, out |-> <<>>,
                 data |-> data, poll_url |-> <<>>]
    IN  IF ~IsSuccessCode(resp.status_code)
        THEN [none EXCEPT !.to = "fatal",
                          !.data = IF parsed.raised = "none" THEN d ELSE data,
                          !.fatal = <<<<"str", "ERROR posting to url '">>, <<"url", url>>,
                                      <<"str", "'">>>> \o ErrorMsg(resp)]
        ELSE IF parsed.raised # "none"
        THEN [none EXCEPT !.to = "fatal", !.fatal = ParseErrorText(resp)]
        ELSE IF "status" \notin d.has
        THEN [none EXCEPT !.raised = "KeyError", !.data = d]
        ELSE IF "urls" \notin d.has \/ "status" \notin d.urls.has
        THEN [none EXCEPT !.raised = "KeyError", !.data = d,
                          !.out = <<<<"Resource status", d.status>>>>]
        ELSE [none EXCEPT !.to = "poll", !.data = d, !.poll_url = d.urls.status,
                          !.out = <<<<"Resource status", d.status>>,
                                    <<"Polling:", d.urls.status>>>>]

\* the loop is over and DRY_RUN is not set: POST the chain, classify the answer
Post ==
    /\ pc = "compile"
    /\ i > Len(commands)
    /\ ~IsDryRun(DRY_RUN)
    /\ \E resp \in PostResponses :
         LET url == SubmitUrl(mapset)
             a == Accept(url, resp)
         IN  /\ requests' = Append(requests, Request("POST", url, <<PCHAIN>>))
             /\ req' = resp
             /\ stdout' = stdout \o <<<<"url", url>>, <<"chain", PCHAIN>>,
                                      <<"user", ACTINIA_USER>>>> \o a.out
             /\ pc' = a.to
             /\ raised' = a.raised
             /\ fatal_msg' = a.fatal
             /\ data' = a.data
             /\ poll_url' = a.poll_url
    /\ UNCHANGED <<commands, mapset, DRY_RUN, i, PCHAIN, returned, tool_calls, r,
                   polled, final_status>>
    /\ UNCHANGED <<tok_vars, main_vars>>

\* requests.post raises: the connection failed
PostFails ==
    /\ pc = "compile"
    /\ i > Len(commands)
    /\ ~IsDryRun(DRY_RUN)
    /\ requests' = Append(requests, Request("POST", SubmitUrl(mapset), <<PCHAIN>>))
    /\ stdout' = stdout \o <<<<"url", SubmitUrl(mapset)>>, <<"chain", PCHAIN>>,
                             <<"user", ACTINIA_USER>>>>
    /\ raised' = "ConnectionError"
    /\ pc' = "raised"
    /\ UNCHANGED <<commands, mapset, DRY_RUN, i, PCHAIN, returned, tool_calls, req,
                   poll_url, r, polled, data, final_status, fatal_msg>>
    /\ UNCHANGED <<tok_vars, main_vars>>

\* the for loop over data["process_log"], from entry k on: what it prints and
\* the exception that ends it, if any
RECURSIVE WalkLog(_, _)
WalkLog(log, k) ==
    IF k > Len(log) THEN [out |-> <<>>, raised |-> "none"]
    ELSE LET entry == log[k]
             o1 == IF entry.stdout # "" THEN <<<<"stdout", entry.stdout>>>> ELSE <<>>
         IN  IF Len(entry.stderr) = 0
             THEN [out |-> o1, raised |-> "IndexError"]
             ELSE LET o2 == IF entry.stderr[1] # "" THEN <<<<"stderr", entry.stderr>>>>
                            ELSE <<>>
                      rest == WalkLog(log, k + 1)
                  IN  [out |-> o1 \o o2 \o rest.out, raised |-> rest.raised]

\* the code after the polling loop, for the last response and its snapshot
Report(resp, d, status) ==
    LET sep == <<<<"separator", "-">>>>
    IN  IF resp.status_code = 200
        THEN IF status = "terminated"
             THEN [out |-> sep \o <<<<"text", resp.text>>>>, raised |-> "none"]
             ELSE IF "process_log" \notin d.has
             THEN [out |-> sep, raised |-> "KeyError"]
             ELSE LET w == WalkLog(d.process_log, 1)
                  IN  IF w.raised # "none"
                      THEN [out |-> sep \o w.out, raised |-> w.raised]
                      ELSE IF "urls" \notin d.has
                      THEN [out |-> sep \o w.out, raised |-> "KeyError"]
                      ELSE [out |-> sep \o w.out \o <<<<"urls", d.urls>>>>,
                            raised |-> "none"]
        ELSE [out |-> sep \o <<<<"text", resp.text>>>>, raised |-> "none"]

\* the test that leaves the polling loop
IsTerminal_noerror(status) == status = "finished" \/ status = "terminated"

IsTerminal(status) == status = "finished" \/ status = "error" \/ status = "terminated"

\* "except Exception as a: raise" around the loop body
OnPollException_retry(exc) == [to |-> "poll", raised |-> "none"]

OnPollException(exc) == [to |-> "raised", raised |-> exc]

\* one iteration of the polling loop for the response resp, and the reporting
\* that follows the break
PollStep(resp) ==
    LET parsed == loads(resp.text)
        d == parsed.data
        fault(exc) == [to |-> OnPollException(exc).to,
                       raised |-> OnPollException(exc).raised, out |-> <<>>,
                       data |-> data, final_status |-> final_status]
    IN  IF parsed.raised # "none"
        THEN fault(parsed.raised)
        ELSE IF "status" \notin d.has
        THEN [fault("KeyError") EXCEPT !.data = d]
        ELSE IF "message" \notin d.has
        THEN [fault("KeyError") EXCEPT !.data = d,
                                       !.out = <<<<"Resource poll status:", d.status>>>>]
        ELSE LET o == <<<<"Resource poll status:", d.status>>, <<"message", d.message>>>>
             IN  IF IsTerminal(d.status)
                 THEN LET rep == Report(resp, d, d.status)
                      IN  [to |-> IF rep.raised = "none" THEN "returned" ELSE "raised",
                           raised |-> rep.raised, out |-> o \o rep.out, data |-> d,
                           final_status |-> d.status]
                 ELSE [to |-> "poll", raised |-> "none", out |-> o, data |-> d,
                       final_status |-> d.status]

Gets == SelectSeq(requests, LAMBDA q : q.method = "GET")
Posts == SelectSeq(requests, LAMBDA q : q.method = "POST")

\* the loop test "while True", for the number of polls made so far
LoopContinues_bounded(n) == n < 2

LoopContinues(n) == TRUE

\* GET the status URL and handle the answer
Poll ==
    /\ pc = "poll"
    /\ LoopContinues(Len(Gets))
    /\ Len(Gets) < MaxGets
    /\ \E resp \in PollResponses :
         LET p == PollStep(resp)
         IN  /\ requests' = Append(requests, Request("GET", poll_url, <<>>))
             /\ r' = resp
             /\ polled' = Append(polled, resp)
             /\ data' = p.data
             /\ final_status' = p.final_status
             /\ stdout' = stdout \o p.out
             /\ raised' = p.raised
             /\ pc' = p.to
    /\ UNCHANGED <<commands, mapset, DRY_RUN, i, PCHAIN, returned, tool_calls, req,
                   poll_url, fatal_msg>>
    /\ UNCHANGED <<tok_vars, main_vars>>

\* requests.get raises: the connection failed
PollFails_retry ==
    /\ pc = "poll"
    /\ LoopContinues(Len(Gets))
    /\ Len(Gets) < MaxGets
    /\ requests' = Append(requests, Request("GET", poll_url, <<>>))
    /\ UNCHANGED <<pc, raised, commands, mapset, DRY_RUN, i, PCHAIN, returned,
                   tool_calls, req, poll_url, r, polled, data, final_status, stdout,
                   fatal_msg>>
    /\ UNCHANGED <<tok_vars, main_vars>>

PollFails ==
    /\ pc = "poll"
    /\ LoopContinues(Len(Gets))
    /\ Len(Gets) < MaxGets
    /\ requests' = Append(requests, Request("GET", poll_url, <<>>))
    /\ raised' = "ConnectionError"
    /\ pc' = "raised"
    /\ UNCHANGED <<commands, mapset, DRY_RUN, i, PCHAIN, returned, tool_calls, req,
                   poll_url, r, polled, data, final_status, stdout, fatal_msg>>
    /\ UNCHANGED <<tok_vars, main_vars>>

Next == Compile \/ DryRun \/ Post \/ PostFails \/ Poll \/ PollFails

Spec == Init /\ [][Next]_vars

\* the call keeps running: it is one sequential control flow and every
\* request ends with an answer or a connection error
SpecLive == InitLive /\ [][Next]_vars /\ WF_vars(Next)

(***************************************************************************)
(* Runs of split_grass_command                                             *)
(***************************************************************************)
Tokenize ==
    /\ tpc = "start"
    /\ tokens' = split_grass_command(grass_command)
    /\ tpc' = IF tokens'.raised = "none" THEN "tokenized" ELSE "raised"
    /\ UNCHANGED <<grass_command, retokens>>
    /\ UNCHANGED <<chain_vars, main_vars>>

\* tokenize the tokens joined with single spaces
Retokenize ==
    /\ tpc = "tokenized"
    /\ retokens' = split_grass_command(JoinSpaces(tokens.tokens))
    /\ tpc' = "retokenized"
    /\ UNCHANGED <<grass_command, tokens>>
    /\ UNCHANGED <<chain_vars, main_vars>>

NextTok == Tokenize \/ Retokenize

SpecTok == InitTok /\ [][NextTok]_vars

(***************************************************************************)
(* main                                                                    *)
(***************************************************************************)
is_grass_command(gc) == gc[1] \in {"r", "v", "i", "t", "g", "r3"}

\* the if/elif chain of main: the actions it calls and the exception that
\* leaves it, if any; argv_given stands for len(sys.argv) > 1
main(fl, op, argv_given) ==
    LET do(a) == [performed |-> <<a>>, raised |-> "none"]
        nothing == [performed |-> <<>>, raised |-> "none"]
        mapset_given == op.mapset # ""
    IN  IF fl.a THEN do("actinia_version")
        ELSE IF Len(op.create_location) > 0
        THEN IF Len(op.create_location) < 2
             THEN [performed |-> <<>>, raised |-> "IndexError"]
             ELSE do("create_persistent_location")
        ELSE IF op.delete_location # "" THEN do("delete_persistent_location")
        ELSE IF op.location # ""
        THEN IF op.script # "" THEN do("execute_script")
             ELSE IF fl.m THEN do("list_user_mapsets")
             ELSE IF fl.r /\ mapset_given THEN do("list_maps_of_mapsets")
             ELSE IF fl.v /\ mapset_given THEN do("list_maps_of_mapsets")
             ELSE IF fl.s /\ mapset_given THEN do("list_maps_of_mapsets")
             ELSE IF op.render_raster # "" THEN do("show_rendered_map")
             ELSE IF op.render_vector # "" THEN do("show_rendered_map")
             ELSE IF op.render_strds # "" THEN do("show_rendered_map")
             ELSE IF op.create_mapset # "" THEN do("create_persistent_mapset")
             ELSE IF op.delete_mapset # "" THEN do("delete_persistent_mapset")
             ELSE IF is_grass_command(op.grass_command) THEN do("send_poll_commands")
             ELSE nothing
        ELSE IF op.list_jobs # "" THEN do("list_user_jobs")
        ELSE IF op.info_job # "" THEN do("show_user_job_info")
        ELSE IF op.kill_job # "" THEN do("kill_user_job")
        ELSE IF fl.l THEN do("list_user_locations")
        ELSE IF fl.r THEN do("list_maps_of_mapsets")
        ELSE IF fl.v THEN do("list_maps_of_mapsets")
        ELSE IF fl.s THEN do("list_maps_of_mapsets")
        ELSE IF op.render_raster # "" THEN do("show_rendered_map")
        ELSE IF op.render_vector # "" THEN do("show_rendered_map")
        ELSE IF op.render_strds # "" THEN do("show_rendered_map")
        ELSE IF fl.m THEN do("list_user_mapsets")
        ELSE IF op.create_mapset # "" THEN do("create_persistent_mapset")
        ELSE IF op.delete_mapset # "" THEN do("delete_persistent_mapset")
        ELSE IF op.script # "" THEN do("execute_script")
        ELSE IF argv_given
             THEN IF is_grass_command(op.grass_command) THEN do("send_poll_commands")
                  ELSE nothing
             ELSE do("actinia_version")

\* one run of main: DRY_RUN is set from flag d, then the action is chosen
Main ==
    /\ mpc = "start"
    /\ LET argv_given == (\E f \in FlagNames : flags[f])
                          \/ (\E o \in OptionNames \ {"grass_command", "create_location"} :
                                 options[o] # "")
                          \/ options.grass_command # <<"">>
                          \/ options.create_location # <<>>
           m == main(flags, options, argv_given)
       IN  /\ performed' = m.performed
           /\ raised' = m.raised
           /\ mpc' = IF m.raised = "none" THEN "done" ELSE "raised"
    /\ DRY_RUN' = IF flags.d THEN TRUE ELSE DRY_RUN
    /\ UNCHANGED <<pc, commands, mapset, i, PCHAIN, returned, tool_calls, requests, req,
                   poll_url, r, polled, data, final_status, stdout, fatal_msg>>
    /\ UNCHANGED <<tok_vars, flags, options>>

NextMain == Main

SpecMain == InitMain /\ [][NextMain]_vars

(***************************************************************************)
(* Vocabulary of the properties                                            *)
(***************************************************************************)
\* the quote character that is open after the first k characters of s, read
\* left to right with a quote closed by the next quote of its own kind; ""
\* when none is open
RECURSIVE OpenQuote(_, _)
OpenQuote(s, k) ==
    IF k = 0 THEN ""
    ELSE LET before == OpenQuote(s, k - 1)
         IN  IF before = ""
             THEN IF s[k] \in Quotes THEN s[k] ELSE ""
             ELSE IF s[k] = before THEN "" ELSE before

Balanced(s) == OpenQuote(s, Len(s)) = ""

\* position p of s lies between a quote and the quote that closes it
InsideMatchedPair(s, p) ==
    /\ OpenQuote(s, p) # ""
    /\ s[p] # OpenQuote(s, p)
    /\ \E q \in (p + 1)..Len(s) : s[q] = OpenQuote(s, p)

Contains(msg, tag, value) ==
    \E k \in 1..Len(msg) : msg[k][1] = tag /\ msg[k][2] = value

Printed(tag) == \E k \in 1..Len(stdout) : stdout[k][1] = tag

ReportTags == {"separator", "text", "stdout", "stderr", "urls"}

ParseableSnap(resp) ==
    resp.text.wf /\ {"status", "message"} \subseteq resp.text.obj.has

TerminalSnap(resp) ==
    ParseableSnap(resp) /\ resp.text.obj.status \in TerminalStatuses

FirstTerminalAt(k) ==
    /\ TerminalSnap(polled[k])
    /\ \A j \in 1..(k - 1) : ParseableSnap(polled[j]) /\ ~TerminalSnap(polled[j])

(***************************************************************************)
(* Properties                                                              *)
(***************************************************************************)
\* C1: when the first terminal status (finished, error, terminated) of the
\* parseable status responses is the k-th response, exactly k GETs have been
\* issued, all to the status URL, the loop has stopped, and the snapshot used
\* afterwards is that k-th response.
C1_PollsUntilFirstTerminal ==
    \A k \in 1..Len(polled) :
        FirstTerminalAt(k) =>
            /\ Len(Gets) = k
            /\ Len(polled) = k
            /\ \A g \in 1..k : Gets[g].url = poll_url
            /\ pc \in {"returned", "raised"}
            /\ r = polled[k]
            /\ data = polled[k].text.obj
            /\ final_status = polled[k].text.obj.status

C1_Witness ==
    /\ pc = "returned"
    /\ Len(Gets) = 3
    /\ Len(polled) = 3
    /\ polled[1].text.obj.status = "running"
    /\ polled[2].text.obj.status = "running"
    /\ ParseableSnap(polled[1]) /\ ParseableSnap(polled[2])
    /\ TerminalSnap(polled[3])
    /\ final_status = "finished"

\* C2: once the polled job has reached terminal status error, whatever the
\* HTTP status and the other fields of the snapshot, no exception leaves
\* send_poll_commands and grass.fatal is not called: it returns normally
\* with the message printed.
C2_ErrorStatusReturnsNormally ==
    final_status = "error" =>
        /\ pc = "returned"
        /\ raised = "none"
        /\ fatal_msg = <<>>
        /\ Printed("message")

\* C3: a POST response whose status code is not 200 or 201 ends in
\* grass.fatal with no GET issued; the fatal text holds the message field of
\* a body that parses and has one, and the raw body when it does not parse.
C3_BadSubmissionIsFatal ==
    (req # NoResponse /\ req.status_code \notin {200, 201}) =>
        /\ pc = "fatal"
        /\ Len(Gets) = 0
        /\ (req.text.wf /\ "message" \in req.text.obj.has)
               => Contains(fatal_msg, "str", req.text.obj.message)
        /\ ~req.text.wf => Contains(fatal_msg, "text", req.text)

C3_Witness ==
    /\ pc = "fatal"
    /\ req.status_code = 202
    /\ Contains(fatal_msg, "str", "bad request")
    /\ Len(Posts) = 1

\* C4: a POST has been issued only if every command was compiled without
\* failure: no command holds --help, every run of the tool exited with 0 and
\* printed parseable output, one result was returned per command, and the
\* chain posted holds all the non-empty results.
C4_PostOnlyAfterAllCompiled ==
    Len(Posts) > 0 =>
        /\ \A k \in 1..Len(commands) : ~InSeq("--help", commands[k])
        /\ \A k \in 1..Len(tool_calls) :
               /\ tool_calls[k].outcome.returncode = 0
               /\ tool_calls[k].outcome.stdout # "garbage"
        /\ Len(returned) = Len(commands)
        /\ Posts[1].body[1].list = SelectSeq(returned, Truthy)

C4_Witness ==
    /\ pc = "raised"
    /\ Len(tool_calls) = 2
    /\ tool_calls[2].outcome.returncode = 1
    /\ Len(PCHAIN.list) = 1
    /\ requests = <<>>

\* C5: with DRY_RUN set no request, POST or GET, is ever issued, and the
\* call returns after printing the chain.
C5_DryRunSendsNothing ==
    DRY_RUN = TRUE =>
        /\ requests = <<>>
        /\ pc \in {"compile", "raised", "returned"}
        /\ pc = "returned" => stdout = <<<<"json", PCHAIN>>>>

C5_Witness ==
    /\ DRY_RUN = TRUE
    /\ pc = "returned"
    /\ mapset = "user1"
    /\ Len(PCHAIN.list) = 2
    /\ requests = <<>>

\* C6: the list of the chain is the sequence of the non-empty results of
\* create_actinia_process in command order, each the description of its
\* command; an empty or absent result adds nothing; the version stays "1";
\* after the loop one result per command has been returned.
C6_ChainIsNonEmptyResultsInOrder ==
    /\ PCHAIN.version = "1"
    /\ PCHAIN.list = SelectSeq(returned, Truthy)
    /\ \A k \in 1..Len(returned) :
           /\ Truthy(returned[k]) => returned[k] = ProcOf(commands[k])
           /\ Len(commands[k]) = 0 => ~Truthy(returned[k])
    /\ (pc = "compile" /\ i > Len(commands)) => Len(returned) = Len(commands)

C6_Witness ==
    /\ pc = "compile"
    /\ i > Len(commands)
    /\ Len(commands) = 2
    /\ commands[1] = <<>>
    /\ Len(commands[2]) > 0
    /\ PCHAIN.list = <<ProcOf(commands[2])>>

\* C7 as stated: for a line with balanced quotes, tokenizing the tokens
\* joined with single spaces gives the same token sequence.
C7_RejoinIdempotent ==
    (tpc = "retokenized" /\ Balanced(grass_command)) => retokens = tokens

NoSpaceOrQuote(toks) ==
    \A k \in 1..Len(toks) : ~HasChar(toks[k], Quotes \cup {SP})

\* C7 amended: for a line with balanced quotes whose tokens hold neither a
\* space nor a quote character, tokenizing the tokens joined with single
\* spaces returns the same token sequence.
C7_RejoinIdempotentPlainTokens ==
    (/\ tpc = "retokenized"
     /\ Balanced(grass_command)
     /\ NoSpaceOrQuote(tokens.tokens)) => retokens = tokens

C7_Witness ==
    /\ tpc = "retokenized"
    /\ Balanced(grass_command)
    /\ HasChar(grass_command, Quotes)
    /\ HasChar(grass_command, {SP})
    /\ NoSpaceOrQuote(tokens.tokens)
    /\ Len(tokens.tokens) = 2
    /\ retokens = tokens

\* C8: no space that lies inside a matched pair of quotes, single or double,
\* is a position at which split_grass_command splits the line.
C8_QuotedSpaceNeverSplits ==
    tpc # "start" =>
        \A p \in SPACE_MATCHER(grass_command) : ~InsideMatchedPair(grass_command, p)

\* C9: for a POST response with a status code other than 200 and 201 whose
\* body parses and has no message field, the fatal text holds the raw body.
C9_NoMessageFieldGivesRawBody ==
    (/\ req # NoResponse
     /\ req.status_code \notin {200, 201}
     /\ req.text.wf
     /\ "message" \notin req.text.obj.has) => Contains(fatal_msg, "text", req.text)

\* C10: a poll response that does not parse, or lacks status or message, is
\* the last one: an exception leaves send_poll_commands, no GET follows and
\* nothing of the result report is printed.
C10_PollParseFaultEndsRun ==
    \A k \in 1..Len(polled) :
        ~ParseableSnap(polled[k]) =>
            /\ k = Len(polled)
            /\ Len(Gets) = k
            /\ pc = "raised"
            /\ raised \in {"JSONDecodeError", "KeyError"}
            /\ \A t \in ReportTags : ~Printed(t)

C10_Witness ==
    /\ pc = "raised"
    /\ Len(Gets) = 2
    /\ Len(polled) = 2
    /\ ParseableSnap(polled[1])
    /\ ~polled[2].text.wf
    /\ raised = "JSONDecodeError"

\* C11: at most one POST is issued; it goes to
\* .../locations/{location}/mapsets/{mapset}/processing_async when a mapset
\* is given and to .../locations/{location}/processing_async_export when
\* none is, whatever the commands, the chain and DRY_RUN.
C11_EndpointChosenByMapset ==
    /\ Len(Posts) <= 1
    /\ \A k \in 1..Len(Posts) :
           Posts[k].url =
               IF mapset = "user1"
               THEN <<"https://actinia.mundialis.de", "api", "v3", "locations",
                      "nc_spm_08", "mapsets", "user1", "processing_async">>
               ELSE <<"https://actinia.mundialis.de", "api", "v3", "locations",
                      "nc_spm_08", "processing_async_export">>

C11_Witness ==
    /\ Len(Posts) = 1
    /\ mapset = "user1"
    /\ Posts[1].url[Len(Posts[1].url)] = "processing_async"
    /\ Len(PCHAIN.list) > 0

\* what walking the process log in order prints: each non-empty stdout, and
\* each stderr that has a non-empty first element
RECURSIVE ExpectedWalk(_)
ExpectedWalk(log) ==
    IF Len(log) = 0 THEN <<>>
    ELSE LET entry == Head(log)
             o1 == IF entry.stdout # "" THEN <<<<"stdout", entry.stdout>>>> ELSE <<>>
             o2 == IF Len(entry.stderr) > 0 /\ entry.stderr[1] # ""
                   THEN <<<<"stderr", entry.stderr>>>> ELSE <<>>
         IN  o1 \o o2 \o ExpectedWalk(Tail(log))

\* what has been printed after the separator line
ReportOut ==
    LET seps == {k \in 1..Len(stdout) : stdout[k][1] = "separator"}
    IN  IF seps = {} THEN <<>> ELSE SubSeq(stdout, SetMin(seps) + 1, Len(stdout))

\* C12: after the terminal poll the report is one of three cases: HTTP 200
\* and terminated prints only the raw body; HTTP 200 and finished or error
\* prints the walk of process_log in order and the urls mapping last; any
\* other HTTP status prints only the raw body.
C12_ReportCases ==
    (Len(polled) > 0 /\ TerminalSnap(polled[Len(polled)])) =>
        LET resp == polled[Len(polled)]
            d == resp.text.obj
        IN  /\ Printed("separator")
            /\ (resp.status_code = 200 /\ d.status = "terminated")
                   => ReportOut = <<<<"text", resp.text>>>>
            /\ (/\ resp.status_code = 200
                /\ d.status \in {"finished", "error"}
                /\ {"process_log", "urls"} \subseteq d.has)
                   => ReportOut = ExpectedWalk(d.process_log) \o <<<<"urls", d.urls>>>>
            /\ resp.status_code # 200 => ReportOut = <<<<"text", resp.text>>>>

\* C13: a POST response with status code 200 or 201 whose body does not
\* parse ends in grass.fatal with exactly the raw body as its text, and no
\* GET is issued.
C13_UnparseableAcceptanceIsFatal ==
    (req.status_code \in {200, 201} /\ ~req.text.wf) =>
        /\ pc = "fatal"
        /\ raised = "none"
        /\ fatal_msg = <<<<"text", req.text>>>>
        /\ Len(Gets) = 0
        /\ Len(requests) = 1

C13_Witness ==
    /\ req.status_code = 201
    /\ ~req.text.wf
    /\ pc = "fatal"
    /\ Len(Posts) = 1

\* the pieces of the line before any token is rewritten
RawTokens == re_split(grass_command, SPACE_MATCHER(grass_command))

\* token has = and a quote, splits at its unquoted = into key and value, and
\* the value starts and ends with the same quote character
QuotedValue(token) ==
    /\ HasChar(token, {EQ}) /\ HasChar(token, Quotes)
    /\ LET parts == re_split(token, EQUALS_MATCHER(token))
       IN  /\ Len(parts) = 2
           /\ Len(parts[2]) >= 2
           /\ parts[2][1] \in Quotes
           /\ parts[2][1] = parts[2][Len(parts[2])]

\* C14: a token key=value whose value starts and ends with the same quote
\* character is rewritten to key=value without its first and last character:
\* one layer of quotes is removed and every character inside it is kept.
C14_OneQuoteLayerStripped ==
    tpc = "tokenized" =>
        \A k \in 1..Len(RawTokens) :
            QuotedValue(RawTokens[k]) =>
                LET parts == re_split(RawTokens[k], EQUALS_MATCHER(RawTokens[k]))
                IN  tokens.tokens[k] =
                        parts[1] \o <<EQ>> \o SubSeq(parts[2], 2, Len(parts[2]) - 1)

\* C15: split_grass_command raises no exception for any line, whatever its
\* quoting, the number of unquoted = in a token and the value after =: it
\* always returns a token sequence.
C15_TokenizerNeverRaises ==
    tpc # "start" => (tpc \in {"tokenized", "retokenized"} /\ tokens.raised = "none")

CountOf(x, s) == Cardinality({k \in 1..Len(s) : s[k] = x})

\* C16: every start of the tool has --json in its argument list: the
\* command's tokens unchanged when they already hold the flag, and the
\* tokens followed by one --json when they do not.
C16_ToolStartedWithJsonFlag ==
    [][tool_calls' # tool_calls =>
          /\ Len(tool_calls') = Len(tool_calls) + 1
          /\ LET command == commands[i]
                 args == tool_calls'[Len(tool_calls')].args
             IN  /\ InSeq("--json", args)
                 /\ InSeq("--json", command) => args = command
                 /\ ~InSeq("--json", command) =>
                        (args = Append(command, "--json") /\ CountOf("--json", args) = 1)]_vars

C16_Witness ==
    /\ Len(tool_calls) = 2
    /\ tool_calls[1].args = <<"r.info", "--json">>
    /\ tool_calls[2].args = <<"g.region", "--json">>
    /\ Len(PCHAIN.list) = 2

\* C17: a command holding --help is never passed to the tool and the loop
\* never gets past it: the call ends with an exception there, nothing is
\* returned or appended to the chain for it, and no request is issued.
C17_HelpRejected ==
    /\ \A k \in 1..Len(tool_calls) : ~InSeq("--help", tool_calls[k].args)
    /\ \A k \in 1..Len(commands) :
           InSeq("--help", commands[k]) =>
               /\ requests = <<>>
               /\ i <= k
               /\ Len(returned) < k
               /\ Len(PCHAIN.list) < k
    /\ (pc = "raised" /\ i <= Len(commands) /\ InSeq("--help", commands[i])) =>
           /\ raised = "Exception"
           /\ Len(returned) = i - 1
           /\ PCHAIN.list = SelectSeq(returned, Truthy)
           /\ Len(tool_calls) = Cardinality({j \in 1..(i - 1) : Len(commands[j]) > 0})

C17_Witness ==
    /\ pc = "raised"
    /\ i = 2
    /\ Len(commands) = 2
    /\ InSeq("--help", commands[2])
    /\ Len(tool_calls) = 1
    /\ Len(PCHAIN.list) = 1
    /\ requests = <<>>

FailedCall(c) == c.outcome.returncode # 0 \/ c.outcome.stdout = "garbage"

\* C18: nothing is tried twice.  At most one POST is issued and it is the
\* first request; each command is compiled at most once and a failed run of
\* the tool is the last one, with no request after it; a fatal submission
\* leaves the POST as the only request; a GET gets an answer or is the one
\* on which the connection failed, after which the call is over; a poll
\* response that does not parse is the last.
C18_NoRetry ==
    /\ Len(Posts) <= 1
    /\ \A k \in 1..Len(requests) : requests[k].method = "POST" => k = 1
    /\ Len(tool_calls) <= Len(commands)
    /\ Len(returned) <= Len(commands)
    /\ \A k \in 1..Len(tool_calls) :
           FailedCall(tool_calls[k]) =>
               (k = Len(tool_calls) /\ requests = <<>> /\ pc = "raised")
    /\ (req # NoResponse /\ (req.status_code \notin {200, 201} \/ ~req.text.wf)) =>
           (Len(requests) = 1 /\ pc = "fatal")
    /\ Len(Gets) = Len(polled)
                   + (IF raised = "ConnectionError" /\ req # NoResponse THEN 1 ELSE 0)
    /\ raised = "ConnectionError" =>
           (pc = "raised" /\ (req = NoResponse => Len(requests) = 1))
    /\ \A k \in 1..Len(polled) :
           ~ParseableSnap(polled[k]) => (k = Len(polled) /\ pc = "raised")

C18_Witness ==
    /\ raised = "ConnectionError"
    /\ pc = "raised"
    /\ Len(Posts) = 1
    /\ Len(Gets) = 2
    /\ Len(polled) = 1

\* C19: a run of main calls exactly one action, whatever flags and options
\* are given: never two and never none.
C19_ExactlyOneAction ==
    mpc # "start" => (mpc = "done" /\ Len(performed) = 1)

\* C20: the polling loop has no bound of its own.  The call is in the loop
\* only while every answer so far was a non-terminal snapshot; a terminal
\* snapshot ends the call at once; the call returns from polling only on a
\* terminal snapshot; and while it is in the loop it always polls again
\* (up to the MaxGets polls that are explored).
C20_PollsUntilTerminal ==
    /\ [](pc = "poll" =>
            \A k \in 1..Len(polled) :
                ParseableSnap(polled[k]) /\ ~TerminalSnap(polled[k]))
    /\ []((Len(polled) > 0 /\ TerminalSnap(polled[Len(polled)]))
            => pc \in {"returned", "raised"})
    /\ []((pc = "returned" /\ Len(Gets) > 0)
            => (Len(polled) = Len(Gets) /\ TerminalSnap(polled[Len(polled)])))
    /\ \A n \in 0..(MaxGets - 1) :
           (pc = "poll" /\ Len(Gets) = n) ~> (Len(Gets) = n + 1)

C20_Witness ==
    /\ pc = "poll"
    /\ Len(Gets) = MaxGets
    /\ Len(polled) = MaxGets
    /\ \A k \in 1..Len(polled) : ParseableSnap(polled[k]) /\ ~TerminalSnap(polled[k])

\* the number of commands the compile loop has taken so far, the one it
\* ended on included
Attempted ==
    IF i > Len(commands) THEN Len(commands)
    ELSE IF pc = "raised" THEN i ELSE i - 1

\* the positions among the first n commands that satisfy Test, in order
PositionsUpTo(n, Test(_)) ==
    SelectSeq([j \in 1..n |-> j], LAMBDA j : Test(commands[j]))

NonEmpty(command) == Len(command) > 0

\* a command the tool is started for: not empty and without --help
Startable(command) == Len(command) > 0 /\ ~InSeq("--help", command)

\* the runs of the tool so far are, in order, one for each of the given
\* positions, each with that command's argument list
RunsMatch(idx) ==
    /\ Len(tool_calls) = Len(idx)
    /\ \A k \in 1..Len(tool_calls) :
           k <= Len(idx) => tool_calls[k].args = commands[idx[k]]

\* a failed compile is the last thing the loop does, and a request is issued
\* only when the loop has taken every command and no run failed
CompileOrder ==
    /\ \A k \in 1..Len(tool_calls) :
           FailedCall(tool_calls[k]) => (k = Len(tool_calls) /\ pc = "raised")
    /\ (pc = "raised" /\ requests = <<>> /\ req = NoResponse) =>
           (i <= Len(commands) /\ Len(returned) = i - 1)
    /\ requests # <<>> =>
           /\ i = Len(commands) + 1
           /\ Len(returned) = Len(commands)
           /\ \A k \in 1..Len(tool_calls) : ~FailedCall(tool_calls[k])

\* a step starts the tool at most once and only while the loop runs; past a
\* failed compile and past the POST nothing more is compiled
OneAtATime ==
    /\ Len(tool_calls') <= Len(tool_calls) + 1
    /\ Len(tool_calls') >= Len(tool_calls)
    /\ SubSeq(tool_calls', 1, Len(tool_calls)) = tool_calls
    /\ (pc = "raised" \/ requests # <<>>) =>
           (tool_calls' = tool_calls /\ i' = i /\ returned' = returned)

\* C21 as stated: the tool is started once for every non-empty command the
\* loop takes, in command order and one at a time; after the first command
\* whose compile fails no later command is compiled; every start of the tool
\* precedes the POST.
C21_OncePerNonEmptyCommand ==
    /\ [](RunsMatch(PositionsUpTo(Attempted, NonEmpty)) /\ CompileOrder)
    /\ [][OneAtATime]_vars

\* C21 amended: the tool is started once for every command the loop takes
\* that is neither empty nor holds --help (a command with --help fails to
\* compile before the tool is started), in command order and one at a time;
\* after the first command whose compile fails no later command is
\* compiled; every start of the tool precedes the POST.
C21_OncePerStartableCommand ==
    /\ [](RunsMatch(PositionsUpTo(Attempted, Startable)) /\ CompileOrder)
    /\ [][OneAtATime]_vars

C21_Witness ==
    /\ Len(commands) = 2
    /\ Len(commands[1]) > 0
    /\ Len(commands[2]) > 0
    /\ Len(tool_calls) = 2
    /\ tool_calls[1].args = commands[1]
    /\ tool_calls[2].args = commands[2]
    /\ ~FailedCall(tool_calls[1])
    /\ ~FailedCall(tool_calls[2])
    /\ Len(Posts) = 1

\* C22: when the terminal snapshot comes with HTTP status 200 and status
\* finished or error, and carries a process_log whose steps each have a
\* stdout string and a stderr sequence of any length (the empty one
\* included) and a urls mapping, the report walks every step without an
\* exception and then prints the urls mapping: the call returns, every
\* non-empty stdout of the log is printed, and urls is printed last.
C22_ReporterWalksAnyStderr ==
    (/\ Len(polled) > 0
     /\ TerminalSnap(polled[Len(polled)])
     /\ polled[Len(polled)].status_code = 200
     /\ polled[Len(polled)].text.obj.status \in {"finished", "error"}
     /\ {"process_log", "urls"} \subseteq polled[Len(polled)].text.obj.has) =>
        LET d == polled[Len(polled)].text.obj
        IN  /\ pc = "returned"
            /\ raised = "none"
            /\ \A k \in 1..Len(d.process_log) :
                   d.process_log[k].stdout # "" =>
                       Contains(ReportOut, "stdout", d.process_log[k].stdout)
            /\ Len(stdout) > 0
            /\ stdout[Len(stdout)][1] = "urls"
            /\ Contains(ReportOut, "urls", d.urls)

====
